---- MODULE Spec2Model ----
(***************************************************************************)
(* Todo-Tasker sync: the Sync Engine (sync-engine.js) and the relay        *)
(* (server/sync.go) as given in docs/sync-architecture.md.                 *)
(*                                                                         *)
(* Specifications:                                                         *)
(*   SpecMerge  mergeTodo / handleSyncData as pure functions of a replica: *)
(*              versions of one record merged in every arrival order, and  *)
(*              a SYNC_DATA batch applied once and twice.                  *)
(*   Spec       the relay's registry and handlers, one handler call (or    *)
(*              sweep) per step.                                           *)
(*   SpecLocks  the relay's handler goroutines step by step, from one wait *)
(*              for sessionsMu to the next, under a fair scheduler.        *)
(*   SpecWrites the relay's handlers with every WriteJSON of a forwarded   *)
(*              message or a PONG as a stretch of time with a beginning    *)
(*              and an end.                                                *)
(*   SpecEnvelope  the relay fed with envelopes that lack sessionId or      *)
(*              fromDevice or carry an unknown type; a closed connection's *)
(*              removeConnection is a step of its own.                     *)
(*   SpecScan   the Sync Engines from the scan of a pairing payload on:     *)
(*              scanAndSync, the message handlers, ERROR messages and      *)
(*              closing connections.                                       *)
(*   SpecThree  one sync run of three Sync Engines in one session.         *)
(*   SpecForward  the relay forwarding the envelopes of three joined       *)
(*              clients, field by field and WriteJSON by WriteJSON.        *)
(*   SpecSync   one sync run of two Sync Engines; the relay forwards every *)
(*              message of a device to its peer, in order, while the peer  *)
(*              is connected.                                              *)
(***************************************************************************)
EXTENDS Integers, Sequences, FiniteSets, TLC

VARIABLES
    mergeImpl,  \* which of the document's two mergeTodo texts the engine runs
    m0,         \* SpecMerge: the replica before any merge
    mset,       \* SpecMerge: the incoming versions
    mpending,   \* SpecMerge: incoming versions not merged yet
    mcur,       \* SpecMerge: the replica now
    mbatch,     \* SpecMerge: the SYNC_DATA batch (payload.todos) being applied
    mapplied,   \* SpecMerge: how many times the batch was applied
    mafter1,    \* SpecMerge: the replica after the first application
    store0,     \* SpecSync: each device's todos table when the sync starts
    store,      \* SpecSync: each device's todos table
    ws,         \* SpecSync: each device's WebSocket ("open" / "closed")
    net,        \* SpecSync: messages the relay has forwarded to a device, not yet handled
    metaSent,   \* SpecSync: the device has sent its METADATA_EXCHANGE
    gotMeta,    \* SpecSync: the device has handled the peer's METADATA_EXCHANGE
    needed,     \* SpecSync: ids the device requested and has not received yet
    peerDone,   \* SpecSync: the device has seen the peer's SYNC_COMPLETE
    sessionId,  \* SpecScan: the engine's this.sessionId
    now,        \* SpecScan: Date.now()
    scanFailed, \* SpecScan: the device's latest scanAndSync threw
    sessionError, \* SpecScan: 'Sync error' was logged since the device's latest join
    nscan,      \* SpecScan: scanAndSync calls so far
    sessions,   \* relay: the sessions map (session id -> SyncSession)
    conn,       \* relay: each connection: "new", "open", "swept" (closed by the sweep), "gone"
    sessionID,  \* relay: syncWebSocketHandler's local sessionID, per connection
    deviceID,   \* relay: syncWebSocketHandler's local deviceID, per connection
    written,    \* relay: what the latest step wrote to each connection
    ident,      \* relay: the (session, device) a connection's first JOIN established
    joinedTo,   \* relay: the session ids a connection has sent a JOIN for
    leaves,     \* relay: the arguments of the connection's removeConnection calls
    nmsg,       \* relay: messages handled, a connection's first JOIN not counted
    pc,         \* SpecLocks: where each connection's handler goroutine stands
    cur,        \* SpecLocks: the message the handler is handling
    sessionsMu, \* SpecLocks: the goroutine holding sessionsMu for writing
    writer,     \* SpecWrites: the connection a handler goroutine is inside WriteJSON on
    pending,    \* SpecWrites: the connections the handler has still to write to
    mark,       \* SpecForward: for each handler inside WriteJSON, the frames the target had received when it entered
    raced       \* SpecForward: the handlers that have been inside WriteJSON together with another on one connection

mergeVars == <<m0, mset, mpending, mcur, mbatch, mapplied, mafter1>>
scanVars == <<sessionId, now, scanFailed, sessionError, nscan>>
syncVars == <<store0, store, ws, net, metaSent, gotMeta, needed, peerDone,
              scanVars>>
relayVars == <<sessions, conn, sessionID, deviceID, written, ident, joinedTo,
               leaves, nmsg>>
fwdVars == <<mark, raced>>
writeVars == <<writer, pending, fwdVars>>
lockVars == <<pc, cur, sessionsMu, writeVars>>
vars == <<mergeImpl, mergeVars, syncVars, relayVars, lockVars>>

----------------------------------------------------------------------------
(* Bounds *)

\* updated_at values are 1..MaxTime
MaxTime == 2
\* at most MaxBatch incoming versions / records in one SYNC_DATA batch
MaxBatch == 2
\* messages the relay handles, not counting each connection's first JOIN
MaxMsgs == 1
\* the chunk size of a SYNC_DATA answer, scaled down from 100
ChunkSize == 1
\* scanAndSync calls in a run
MaxScans == 3
\* forwarded messages and PINGs the relay handles in SpecWrites
MaxRelays == 2
\* envelopes the three clients send in SpecForward
MaxSends == 3

----------------------------------------------------------------------------
(* Records (the todos table) *)

DeviceIds == {"devA", "devB"}
TodoIds == {"a", "b", "c"}
Payloads == {"p", "q"}
Times == 1..MaxTime

\* JavaScript compares device_id strings lexicographically: "devA" < "devB"
DeviceRank(d) == IF d = "devA" THEN 1 ELSE IF d = "devB" THEN 2 ELSE 0
StrLess(d1, d2) == DeviceRank(d1) < DeviceRank(d2)

\* created_at is set once by the creating device
CreatedAtOf(d) == IF d = "devA" THEN 0 ELSE 1

\* getTodoById finds no row
NoTodo ==
    [id |-> "", device_id |-> "", created_at |-> 0, updated_at |-> 0,
     payload |-> "", deleted |-> FALSE]

\* the rows one id can hold (title, description, completed, priority and
\* due_date are the payload)
TodosOf(i) ==
    {[id |-> i, device_id |-> d, created_at |-> CreatedAtOf(d),
      updated_at |-> t, payload |-> p, deleted |-> del] :
        d \in DeviceIds, t \in Times, p \in Payloads, del \in BOOLEAN}

EmptyDb == [i \in TodoIds |-> NoTodo]

getTodoById(db, i) == db[i]

\* INSERT INTO todos (...) VALUES (...): the row as received
insertTodoSwapped(db, todo) ==
    [db EXCEPT ![todo.id] =
        [todo EXCEPT !.created_at = todo.updated_at,
                     !.updated_at = todo.created_at]]

insertTodo(db, todo) == [db EXCEPT ![todo.id] = todo]

\* an update that replaces the whole row (INSERT OR REPLACE)
updateTodoReplace(db, todo) ==
    IF db[todo.id] = NoTodo
    THEN db
    ELSE [db EXCEPT ![todo.id] = todo]

\* UPDATE todos SET title.., updated_at, deleted WHERE id: device_id and
\* created_at are not in the SET list
updateTodo(db, todo) ==
    IF db[todo.id] = NoTodo
    THEN db
    ELSE [db EXCEPT ![todo.id] =
            [@ EXCEPT !.payload = todo.payload,
                      !.updated_at = todo.updated_at,
                      !.deleted = todo.deleted]]

\* SyncEngine.mergeTodo of sync-engine.js: remote wins only when strictly newer
mergeTodoEngine(db, remoteTodo) ==
    LET localTodo == getTodoById(db, remoteTodo.id) IN
    IF localTodo = NoTodo
    THEN insertTodo(db, remoteTodo)
    ELSE IF remoteTodo.updated_at > localTodo.updated_at
         THEN updateTodo(db, remoteTodo)
         ELSE db

\* mergeTodo of the Conflict Resolution section: device_id breaks a tie
mergeTodoLWW(db, remoteTodo) ==
    LET localTodo == getTodoById(db, remoteTodo.id) IN
    IF localTodo = NoTodo
    THEN insertTodo(db, remoteTodo)
    ELSE IF remoteTodo.updated_at > localTodo.updated_at
         THEN updateTodo(db, remoteTodo)
         ELSE IF remoteTodo.updated_at < localTodo.updated_at
              THEN db
              ELSE IF StrLess(remoteTodo.device_id, localTodo.device_id)
                   THEN updateTodo(db, remoteTodo)
                   ELSE db

MergeImpls == {"engine", "lww"}

\* a mergeTodo that lost its timestamp comparison
mergeTodoNoCompare(db, remoteTodo) ==
    IF getTodoById(db, remoteTodo.id) = NoTodo
    THEN insertTodo(db, remoteTodo)
    ELSE updateTodo(db, remoteTodo)

Abs(x) == IF x < 0 THEN 0 - x ELSE x

\* 24 * 60 * 60 * 1000 ms, as one tick of the model's clock
oneDay == 1

\* validateTimestamp(ts) of the Device Clock Skew section; no code calls it
validateTimestamp(ts) ==
    IF Abs(ts - now) > oneDay
    THEN now
    ELSE ts

\* a mergeTodo that passes the incoming updated_at through validateTimestamp
mergeTodoValidated(db, remoteTodo) ==
    LET checked == [remoteTodo EXCEPT !.updated_at = validateTimestamp(@)]
    IN  IF mergeImpl = "engine"
        THEN mergeTodoEngine(db, checked)
        ELSE mergeTodoLWW(db, checked)

\* the document defines mergeTodo twice; the engine runs one of them
mergeTodo(db, remoteTodo) ==
    IF mergeImpl = "engine"
    THEN mergeTodoEngine(db, remoteTodo)
    ELSE mergeTodoLWW(db, remoteTodo)

\* handleSyncData: for (const todo of todos) await this.mergeTodo(todo)
RECURSIVE mergeAll(_, _)
mergeAll(db, todos) ==
    IF todos = <<>>
    THEN db
    ELSE mergeAll(mergeTodo(db, Head(todos)), Tail(todos))

----------------------------------------------------------------------------
(* The relay (server/sync.go): data *)

Conns == {"c1", "c2", "c3"}
NoConn == "none"
SessionIds == {"A", "B"}
\* the keys of the sessions map: a message without sessionId decodes to ""
SessionKeys == SessionIds \cup {""}

\* the device id a connection's client puts in its JOIN; c1 and c3 are two
\* connections of the same device id
Dev(c) == IF c = "c2" THEN "devB" ELSE "devA"

\* the ages a session passes through, in minutes (now - CreatedAt)
AgeMinutes == <<0, 14, 16>>
\* if now.Sub(session.CreatedAt) > 15*time.Minute
ExpiryMinutes == 15

\* sessions[id] when the map has no such key
NoSession ==
    [exists |-> FALSE, Connections |-> [d \in DeviceIds |-> NoConn], age |-> 1]

\* &SyncSession{SessionID, Connections: make(map), CreatedAt: time.Now()}
NewSession ==
    [exists |-> TRUE, Connections |-> [d \in DeviceIds |-> NoConn], age |-> 1]

NoIdent == <<"", "">>

\* a step that writes to no connection
Quiet == [c \in Conns |-> <<>>]

\* a SyncMessage as the relay sees it (Payload is never read), with the
\* connection it was read from
Wire(type, s, d, via) ==
    [type |-> type, sessionId |-> s, fromDevice |-> d, via |-> via]

NoMsg == Wire("", "", "", NoConn)

\* message types of the case that calls relayMessage: one that carries sync
\* traffic and ERROR (the switch treats all five alike)
RelayTypes == {"SYNC_DATA", "ERROR"}
\* from_device values a client may put in a forwarded message
FromDevices == DeviceIds
\* from_device of a PING: the documented PING carries none
PingDevices(c) == {""}

----------------------------------------------------------------------------
(* The parts of the state a specification does not use stay as they are here *)

ScanIdle ==
    /\ sessionId = [d \in DeviceIds |-> ""]
    /\ now = 0
    /\ scanFailed = [d \in DeviceIds |-> FALSE]
    /\ sessionError = [d \in DeviceIds |-> FALSE]
    /\ nscan = 0

SyncIdle ==
    /\ store0 = [d \in DeviceIds |-> EmptyDb]
    /\ store = [d \in DeviceIds |-> EmptyDb]
    /\ ws = [d \in DeviceIds |-> "closed"]
    /\ net = [d \in DeviceIds |-> <<>>]
    /\ metaSent = [d \in DeviceIds |-> FALSE]
    /\ gotMeta = [d \in DeviceIds |-> FALSE]
    /\ needed = [d \in DeviceIds |-> {}]
    /\ peerDone = [d \in DeviceIds |-> FALSE]
    /\ ScanIdle

RelayIdle ==
    /\ sessions = [s \in SessionKeys |-> NoSession]
    /\ conn = [c \in Conns |-> "new"]
    /\ sessionID = [c \in Conns |-> ""]
    /\ deviceID = [c \in Conns |-> ""]
    /\ written = Quiet
    /\ ident = [c \in Conns |-> NoIdent]
    /\ joinedTo = [c \in Conns |-> {}]
    /\ leaves = [c \in Conns |-> <<>>]
    /\ nmsg = 0

LockIdle ==
    /\ pc = [c \in Conns |-> "read"]
    /\ cur = [c \in Conns |-> NoMsg]
    /\ sessionsMu = NoConn
    /\ writer = [c \in Conns |-> NoConn]
    /\ pending = [c \in Conns |-> {}]
    /\ mark = <<>>
    /\ raced = {}

MergeIdle ==
    /\ m0 = EmptyDb
    /\ mset = {}
    /\ mpending = {}
    /\ mcur = EmptyDb
    /\ mbatch = <<>>
    /\ mapplied = 0
    /\ mafter1 = EmptyDb

----------------------------------------------------------------------------
(* Spec: the relay, one handler call per step.  Each call of handleJoin,   *)
(* relayMessage, removeConnection and cleanupSessions is taken as a whole, *)
(* for what it does to the sessions map and to the connections; the order  *)
(* in which the calls take sessionsMu and session.mu is SpecLocks' matter. *)

InitRelay ==
    /\ mergeImpl = "engine"
    /\ MergeIdle
    /\ SyncIdle
    /\ RelayIdle
    /\ LockIdle

\* relayMessage without the session lookup: every session's entries
TargetsAnySession(reg, s, fromDevice) ==
    UNION {{reg[t].Connections[d] : d \in DeviceIds \ {fromDevice}} : t \in SessionKeys}
        \ {NoConn}

\* the connections relayMessage writes msg to: every entry of the session's
\* Connections whose key is not fromDevice
Targets(reg, s, fromDevice) ==
    IF s \in SessionKeys /\ reg[s].exists
    THEN {reg[s].Connections[d] : d \in DeviceIds \ {fromDevice}} \ {NoConn}
    ELSE {}

\* relayMessage that gives up at the first failed write (the closed
\* connection coming first in the iteration)
relayMessageAbort(reg, s, fromDevice, msg) ==
    [c \in Conns |->
        IF /\ c \in Targets(reg, s, fromDevice)
           /\ \A o \in Targets(reg, s, fromDevice) : conn[o] = "open"
        THEN <<msg>>
        ELSE <<>>]

\* conn.WriteJSON(msg) for every target; a write to a closed connection
\* returns an error, which is logged
relayMessage(reg, s, fromDevice, msg) ==
    [c \in Conns |->
        IF c \in Targets(reg, s, fromDevice) /\ conn[c] = "open"
        THEN <<msg>>
        ELSE <<>>]

\* handleJoin that builds a new session on every JOIN
joinedFresh(reg, s, d, c) ==
    [reg EXCEPT ![s] = [NewSession EXCEPT !.Connections[d] = c]]

\* sessions after handleJoin's get-or-create and Connections[deviceID] = conn
joined(reg, s, d, c) ==
    LET session == IF reg[s].exists THEN reg[s] ELSE NewSession
    IN  [reg EXCEPT ![s] = [session EXCEPT !.Connections[d] = c]]

\* removeConnection without the "remove session if no devices left"
removeConnectionKeep(reg, s, d) ==
    IF ~reg[s].exists
    THEN reg
    ELSE [reg EXCEPT ![s].Connections =
             [k \in DeviceIds |-> IF k = d THEN NoConn ELSE reg[s].Connections[k]]]

\* sessions after removeConnection(s, d)
removeConnection(reg, s, d) ==
    IF s \notin SessionKeys \/ ~reg[s].exists
    THEN reg
    ELSE LET conns == [k \in DeviceIds |->
                          IF k = d THEN NoConn ELSE reg[s].Connections[k]]
             remainingDevices == Cardinality({k \in DeviceIds : conns[k] # NoConn})
         IN  IF remainingDevices = 0
             THEN [reg EXCEPT ![s] = NoSession]
             ELSE [reg EXCEPT ![s].Connections = conns]

\* upgrader.Upgrade succeeds; the handler enters its read loop
Connect(c) ==
    /\ conn[c] = "new"
    /\ conn' = [conn EXCEPT ![c] = "open"]
    /\ written' = Quiet
    /\ UNCHANGED <<mergeImpl, mergeVars, syncVars, lockVars, sessions, sessionID, deviceID,
                   ident, joinedTo, leaves, nmsg>>

\* ReadJSON returns a JOIN for session s: case "JOIN"
HandleJoin(c, s) ==
    /\ conn[c] = "open"
    /\ ident[c] = NoIdent \/ nmsg < MaxMsgs
    /\ LET d == Dev(c)
           reg == joined(sessions, s, d, c)
       IN  /\ sessionID' = [sessionID EXCEPT ![c] = s]
           /\ deviceID' = [deviceID EXCEPT ![c] = d]
           /\ sessions' = reg
           /\ written' = relayMessage(reg, s, d, Wire("JOIN", s, d, c))
           /\ ident' = [ident EXCEPT ![c] = IF @ = NoIdent THEN <<s, d>> ELSE @]
    /\ joinedTo' = [joinedTo EXCEPT ![c] = @ \cup {s}]
    /\ nmsg' = IF ident[c] = NoIdent THEN nmsg ELSE nmsg + 1
    /\ UNCHANGED <<mergeImpl, mergeVars, syncVars, lockVars, conn, leaves>>

\* ReadJSON returns a message of a forwarded type: case "METADATA_EXCHANGE",
\* "REQUEST_SYNC", "SYNC_DATA", "SYNC_COMPLETE", "ERROR"
HandleRelay(c, type, s, d) ==
    /\ conn[c] = "open"
    /\ nmsg < MaxMsgs
    /\ sessionID' = [sessionID EXCEPT ![c] = s]
    /\ deviceID' = [deviceID EXCEPT ![c] = d]
    /\ written' = relayMessage(sessions, s, d, Wire(type, s, d, c))
    /\ nmsg' = nmsg + 1
    /\ UNCHANGED <<mergeImpl, mergeVars, syncVars, lockVars, sessions, conn, ident,
                   joinedTo, leaves>>

\* a PING case that also hands the PING to relayMessage
HandlePingRelayed(c, s, d) ==
    /\ conn[c] = "open"
    /\ nmsg < MaxMsgs
    /\ sessionID' = [sessionID EXCEPT ![c] = s]
    /\ deviceID' = [deviceID EXCEPT ![c] = d]
    /\ written' = [relayMessage(sessions, s, d, Wire("PING", s, d, c))
                      EXCEPT ![c] = <<Wire("PONG", s, "", c)>>]
    /\ nmsg' = nmsg + 1
    /\ UNCHANGED <<mergeImpl, mergeVars, syncVars, lockVars, sessions, conn, ident,
                   joinedTo, leaves>>

\* ReadJSON returns a PING: case "PING", the PONG goes to the sender
HandlePing(c, s, d) ==
    /\ conn[c] = "open"
    /\ nmsg < MaxMsgs
    /\ sessionID' = [sessionID EXCEPT ![c] = s]
    /\ deviceID' = [deviceID EXCEPT ![c] = d]
    /\ written' = [Quiet EXCEPT ![c] = <<Wire("PONG", s, "", c)>>]
    /\ nmsg' = nmsg + 1
    /\ UNCHANGED <<mergeImpl, mergeVars, syncVars, lockVars, sessions, conn, ident,
                   joinedTo, leaves>>

\* ReadJSON returns an error (the client closed, or the sweep closed the
\* connection): break, removeConnection(sessionID, deviceID), conn.Close()
Disconnect(c) ==
    /\ conn[c] \in {"open", "swept"}
    /\ conn' = [conn EXCEPT ![c] = "gone"]
    /\ sessions' = removeConnection(sessions, sessionID[c], deviceID[c])
    /\ leaves' = [leaves EXCEPT ![c] = Append(@, <<sessionID[c], deviceID[c]>>)]
    /\ written' = Quiet
    /\ UNCHANGED <<mergeImpl, mergeVars, syncVars, lockVars, sessionID, deviceID, ident, joinedTo, nmsg>>

\* time passes for session s
PassTime(s) ==
    /\ sessions[s].exists
    /\ sessions[s].age < Len(AgeMinutes)
    /\ sessions' = [sessions EXCEPT ![s].age = @ + 1]
    /\ written' = Quiet
    /\ UNCHANGED <<mergeImpl, mergeVars, syncVars, lockVars, conn, sessionID, deviceID,
                   ident, joinedTo, leaves, nmsg>>

\* the sweep with an expiry test that already fires at 14 minutes
ExpiredEarly(reg) ==
    {s \in SessionKeys : reg[s].exists /\ AgeMinutes[reg[s].age] > 10}

Expired(reg) ==
    {s \in SessionKeys : reg[s].exists /\ AgeMinutes[reg[s].age] > ExpiryMinutes}

\* conn.Close() for every entry of every expired session
closedBySweep(reg) ==
    [c \in Conns |->
        IF conn[c] = "open"
           /\ \E s \in Expired(reg), d \in DeviceIds : reg[s].Connections[d] = c
        THEN "swept" ELSE conn[c]]

\* delete(sessions, sessionID) for every expired session
swept(reg) ==
    [s \in SessionKeys |-> IF s \in Expired(reg) THEN NoSession ELSE reg[s]]

\* the ticker fires: every expired session has its connections closed and is
\* deleted from the map
cleanupSessions ==
    /\ Expired(sessions) # {}
    /\ conn' = closedBySweep(sessions)
    /\ sessions' = swept(sessions)
    /\ written' = Quiet
    /\ UNCHANGED <<mergeImpl, mergeVars, syncVars, lockVars, sessionID, deviceID, ident, joinedTo, leaves, nmsg>>

Next ==
    \/ \E c \in Conns : Connect(c)
    \/ \E c \in Conns, s \in SessionIds : HandleJoin(c, s)
    \/ \E c \in Conns, type \in RelayTypes, s \in SessionIds, d \in FromDevices :
           HandleRelay(c, type, s, d)
    \/ \E c \in Conns, s \in SessionIds : \E d \in PingDevices(c) : HandlePing(c, s, d)
    \/ \E c \in Conns : Disconnect(c)
    \/ \E s \in SessionIds : PassTime(s)
    \/ cleanupSessions

Spec == InitRelay /\ [][Next]_vars

----------------------------------------------------------------------------
(* SpecLocks: the same relay, one step per stretch of a goroutine between  *)
(* two points where it may have to wait.  sessionsMu is a sync.RWMutex:    *)
(* Lock waits until nobody holds it, RLock waits while a writer holds it,  *)
(* and neither is reentrant.  pc: "read" (in ReadJSON), "join" (at         *)
(* handleJoin's Lock), "join_add" (holding it, before Connections is       *)
(* written), "join_relay" (at relayMessage's RLock, inside handleJoin),    *)
(* "relay" (at relayMessage's RLock, called from the switch), "remove" (at *)
(* removeConnection's Lock), "done".                                       *)

InitLocks == InitRelay

\* ReadJSON returns a JOIN for session s; handleJoin is called
ReadJoin(c, s) ==
    /\ conn[c] = "open" /\ pc[c] = "read"
    /\ ident[c] = NoIdent \/ nmsg < MaxMsgs
    /\ sessionID' = [sessionID EXCEPT ![c] = s]
    /\ deviceID' = [deviceID EXCEPT ![c] = Dev(c)]
    /\ cur' = [cur EXCEPT ![c] = Wire("JOIN", s, Dev(c), c)]
    /\ pc' = [pc EXCEPT ![c] = "join"]
    /\ nmsg' = IF ident[c] = NoIdent THEN nmsg ELSE nmsg + 1
    /\ written' = Quiet
    /\ UNCHANGED <<mergeImpl, mergeVars, syncVars, writeVars, sessions, conn, ident, joinedTo,
                   leaves, sessionsMu>>

\* ReadJSON returns a message of a forwarded type; relayMessage is called
ReadRelay(c, type, s, d) ==
    /\ conn[c] = "open" /\ pc[c] = "read"
    /\ nmsg < MaxMsgs
    /\ sessionID' = [sessionID EXCEPT ![c] = s]
    /\ deviceID' = [deviceID EXCEPT ![c] = d]
    /\ cur' = [cur EXCEPT ![c] = Wire(type, s, d, c)]
    /\ pc' = [pc EXCEPT ![c] = "relay"]
    /\ nmsg' = nmsg + 1
    /\ written' = Quiet
    /\ UNCHANGED <<mergeImpl, mergeVars, syncVars, writeVars, sessions, conn, ident, joinedTo,
                   leaves, sessionsMu>>

\* ReadJSON returns a PING; the PONG is written and the loop goes on
ReadPing(c, s, d) ==
    /\ pc[c] = "read"
    /\ HandlePing(c, s, d)

\* ReadJSON returns an error: break
ReadError(c) ==
    /\ conn[c] \in {"open", "swept"} /\ pc[c] = "read"
    /\ pc' = [pc EXCEPT ![c] = "remove"]
    /\ conn' = [conn EXCEPT ![c] = "closed"]
    /\ written' = Quiet
    /\ UNCHANGED <<mergeImpl, mergeVars, syncVars, writeVars, sessions, sessionID, deviceID,
                   ident, joinedTo, leaves, nmsg, cur, sessionsMu>>

\* handleJoin: sessionsMu.Lock(), get or create the session
JoinLock(c) ==
    /\ pc[c] = "join"
    /\ sessionsMu = NoConn
    /\ sessionsMu' = c
    /\ sessions' = [sessions EXCEPT ![sessionID[c]] = IF @.exists THEN @ ELSE NewSession]
    /\ pc' = [pc EXCEPT ![c] = "join_add"]
    /\ written' = Quiet
    /\ UNCHANGED <<mergeImpl, mergeVars, syncVars, writeVars, conn, sessionID, deviceID, ident,
                   joinedTo, leaves, nmsg, cur>>

\* handleJoin: session.mu.Lock(), Connections[deviceID] = conn, Unlock, log;
\* relayMessage is called with sessionsMu still held
JoinAdd(c) ==
    /\ pc[c] = "join_add"
    /\ sessions' = joined(sessions, sessionID[c], deviceID[c], c)
    /\ ident' = [ident EXCEPT ![c] = IF @ = NoIdent THEN <<sessionID[c], deviceID[c]>> ELSE @]
    /\ joinedTo' = [joinedTo EXCEPT ![c] = @ \cup {sessionID[c]}]
    /\ pc' = [pc EXCEPT ![c] = "join_relay"]
    /\ written' = Quiet
    /\ UNCHANGED <<mergeImpl, mergeVars, syncVars, writeVars, conn, sessionID, deviceID, leaves,
                   nmsg, cur, sessionsMu>>

\* sessionsMu.RLock() is granted to goroutine c
CanRLock(c) == sessionsMu = NoConn

\* relayMessage: sessionsMu.RLock(), look the session up, RUnlock, write to
\* the others; back in handleJoin the deferred sessionsMu.Unlock() runs
Relay(c) ==
    /\ pc[c] \in {"relay", "join_relay"}
    /\ CanRLock(c)
    /\ written' = relayMessage(sessions, cur[c].sessionId, cur[c].fromDevice, cur[c])
    /\ sessionsMu' = IF pc[c] = "join_relay" THEN NoConn ELSE sessionsMu
    /\ pc' = [pc EXCEPT ![c] = "read"]
    /\ cur' = [cur EXCEPT ![c] = NoMsg]
    /\ UNCHANGED <<mergeImpl, mergeVars, syncVars, writeVars, sessions, conn, sessionID, deviceID,
                   ident, joinedTo, leaves, nmsg>>

\* removeConnection: sessionsMu.Lock() ... Unlock(); then the deferred
\* conn.Close() of the handler
Remove(c) ==
    /\ pc[c] = "remove"
    /\ sessionsMu = NoConn
    /\ sessions' = removeConnection(sessions, sessionID[c], deviceID[c])
    /\ leaves' = [leaves EXCEPT ![c] = Append(@, <<sessionID[c], deviceID[c]>>)]
    /\ conn' = [conn EXCEPT ![c] = "gone"]
    /\ pc' = [pc EXCEPT ![c] = "done"]
    /\ written' = Quiet
    /\ UNCHANGED <<mergeImpl, mergeVars, syncVars, writeVars, sessionID, deviceID, ident,
                   joinedTo, nmsg, cur, sessionsMu>>

\* a sweep that does not take sessionsMu
SweepUnlocked ==
    /\ conn' = closedBySweep(sessions)
    /\ sessions' = swept(sessions)
    /\ written' = Quiet
    /\ UNCHANGED <<mergeImpl, mergeVars, syncVars, lockVars, sessionID, deviceID,
                   ident, joinedTo, leaves, nmsg>>

\* the ticker fires: cleanupSessions takes sessionsMu.Lock(), handles every
\* expired session and unlocks
Sweep ==
    /\ sessionsMu = NoConn
    /\ conn' = closedBySweep(sessions)
    /\ sessions' = swept(sessions)
    /\ written' = Quiet
    /\ UNCHANGED <<mergeImpl, mergeVars, syncVars, lockVars, sessionID, deviceID,
                   ident, joinedTo, leaves, nmsg>>

\* the steps of c's handler goroutine that the Go scheduler runs
HandlerStep(c) == JoinLock(c) \/ JoinAdd(c) \/ Relay(c) \/ Remove(c)

NextLocks ==
    \/ \E c \in Conns : Connect(c)
    \/ \E c \in Conns, s \in SessionIds : ReadJoin(c, s)
    \/ \E c \in Conns, type \in RelayTypes, s \in SessionIds, d \in FromDevices :
           ReadRelay(c, type, s, d)
    \/ \E c \in Conns, s \in SessionIds : \E d \in PingDevices(c) : ReadPing(c, s, d)
    \/ \E c \in Conns : ReadError(c)
    \/ \E c \in Conns : JoinLock(c)
    \/ \E c \in Conns : JoinAdd(c)
    \/ \E c \in Conns : Relay(c)
    \/ \E c \in Conns : Remove(c)
    \/ \E s \in SessionIds : PassTime(s)
    \/ Sweep

\* goroutines that can run are run
SpecLocks ==
    InitLocks /\ [][NextLocks]_vars /\ \A c \in Conns : WF_vars(HandlerStep(c))

----------------------------------------------------------------------------
(* SpecEnvelope: the handlers of Spec with envelopes of any shape.  A      *)
(* field that the JSON lacks decodes to "".  The end of a connection is in *)
(* two steps, ReadError and Remove, so that a relay can meet a connection  *)
(* that is closed and still an entry of its session.                       *)

\* session ids of the envelopes: a real one and none
EnvSessions == {"A", ""}
\* from_device of the envelopes: the client's own and none
EnvDevices(c) == {Dev(c), ""}
\* a forwarded type and a type the switch has no case for
EnvRelayType == "SYNC_DATA"
EnvUnknownType == "HELLO"

\* ReadJSON returns a message whose type no case of the switch names: the
\* switch has no default, the loop goes on
HandleUnknown(c, type, s, d) ==
    /\ conn[c] = "open"
    /\ nmsg < MaxMsgs
    /\ type \notin RelayTypes \cup {"JOIN", "PING"}
    /\ sessionID' = [sessionID EXCEPT ![c] = s]
    /\ deviceID' = [deviceID EXCEPT ![c] = d]
    /\ written' = Quiet
    /\ nmsg' = nmsg + 1
    /\ UNCHANGED <<mergeImpl, mergeVars, syncVars, lockVars, sessions, conn, ident,
                   joinedTo, leaves>>

NextEnvelope ==
    \/ \E c \in Conns : Connect(c)
    \/ \E c \in Conns, s \in EnvSessions : HandleJoin(c, s)
    \/ \E c \in Conns, s \in EnvSessions : \E d \in EnvDevices(c) :
           HandleRelay(c, EnvRelayType, s, d)
    \/ \E c \in Conns, s \in EnvSessions : HandleUnknown(c, EnvUnknownType, s, Dev(c))
    \/ \E c \in Conns : ReadError(c)
    \/ \E c \in Conns : Remove(c)

SpecEnvelope == InitRelay /\ [][NextEnvelope]_vars

----------------------------------------------------------------------------
(* SpecMerge: one record id, merged version by version and batch-wise *)

MergeId == "a"

Range(s) == {s[k] : k \in 1..Len(s)}

\* the non-empty subsets of S with at most n elements
SizedSubsets(S, n) ==
    UNION {{ {s[k] : k \in 1..m} : s \in [1..m -> S]} : m \in 1..n}

\* the orders in which the records of V can stand in payload.todos
Orders(V) == {s \in [1..Cardinality(V) -> V] : Range(s) = V}

InitMerge ==
    /\ mergeImpl \in MergeImpls
    /\ \E loc \in TodosOf(MergeId) \cup {NoTodo} :
          m0 = [EmptyDb EXCEPT ![MergeId] = loc]
    /\ mset \in SizedSubsets(TodosOf(MergeId), MaxBatch)
    /\ mpending = mset
    /\ mcur = m0
    /\ mbatch = <<>>
    /\ mapplied = 0
    /\ mafter1 = m0
    /\ SyncIdle
    /\ RelayIdle
    /\ LockIdle

\* one incoming version arrives (in any order) and is merged
MergeOne(v) ==
    /\ mapplied = 0
    /\ v \in mpending
    /\ mcur' = mergeTodo(mcur, v)
    /\ mpending' = mpending \ {v}
    /\ UNCHANGED <<mergeImpl, m0, mset, mbatch, mapplied, mafter1, syncVars, relayVars, lockVars>>

\* the whole batch is handled by handleSyncData, a first and a second time
ApplyBatch ==
    /\ mpending = mset
    /\ mapplied < 2
    /\ mbatch' \in (IF mapplied = 0 THEN Orders(mset) ELSE {mbatch})
    /\ mcur' = mergeAll(mcur, mbatch')
    /\ mapplied' = mapplied + 1
    /\ mafter1' = (IF mapplied = 0 THEN mcur' ELSE mafter1)
    /\ UNCHANGED <<mergeImpl, m0, mset, mpending, syncVars, relayVars, lockVars>>

NextMerge ==
    \/ \E v \in TodosOf(MergeId) : MergeOne(v)
    \/ ApplyBatch

SpecMerge == InitMerge /\ [][NextMerge]_vars

----------------------------------------------------------------------------
(* SpecSync: the Sync Engine of two paired devices, devA (X) and devB (Y) *)

Peer(d) == IF d = "devA" THEN "devB" ELSE "devA"

\* the device whose id prefixes the composite todo id
CreatorOf(i) == IF i = "a" THEN "devA" ELSE "devB"

Row(i, t, p, del) ==
    [id |-> i, device_id |-> CreatorOf(i),
     created_at |-> CreatedAtOf(CreatorOf(i)),
     updated_at |-> t, payload |-> p, deleted |-> del]

\* ids the generic initial tables hold; "c" appears in scenario 1 only
SyncIds == {"a", "b"}

\* the rows device d may hold for id i when the sync starts: devA with either
\* payload, devB with payload "p" (equal and different payloads both occur)
StartRows(d, i) ==
    {NoTodo} \cup
    {Row(i, t, p, del) :
        t \in Times, p \in (IF d = "devA" THEN Payloads ELSE {"p"}),
        del \in BOOLEAN}

StartTables(d) ==
    {[i \in TodoIds |-> IF i = "a" THEN ra ELSE IF i = "b" THEN rb ELSE NoTodo] :
        ra \in StartRows(d, "a"), rb \in StartRows(d, "b")}

\* X = {a(10), b(20)}, Y = {b(15), c(30)}
Scenario1 ==
    [d \in DeviceIds |->
        IF d = "devA"
        THEN [i \in TodoIds |->
                IF i = "a" THEN Row("a", 10, "p", FALSE)
                ELSE IF i = "b" THEN Row("b", 20, "p", FALSE) ELSE NoTodo]
        ELSE [i \in TodoIds |->
                IF i = "b" THEN Row("b", 15, "q", FALSE)
                ELSE IF i = "c" THEN Row("c", 30, "q", FALSE) ELSE NoTodo]]

\* X deleted a at 50, Y holds a active at 40
Scenario2 ==
    [d \in DeviceIds |->
        IF d = "devA"
        THEN [EmptyDb EXCEPT !["a"] = Row("a", 50, "p", TRUE)]
        ELSE [EmptyDb EXCEPT !["a"] = Row("a", 40, "p", FALSE)]]

StartDbs ==
    {[d \in DeviceIds |-> IF d = "devA" THEN ta ELSE tb] :
        ta \in StartTables("devA"), tb \in StartTables("devB")}
    \cup {Scenario1, Scenario2}

\* SELECT id FROM todos ORDER BY id: tombstones included
getAllTodoIds(t) == {i \in TodoIds : t[i] # NoTodo}

IdOrder == <<"a", "b", "c">>

\* SELECT * FROM todos WHERE id IN (...)
getTodosByIds(t, ids) ==
    LET found == SelectSeq(IdOrder, LAMBDA i : i \in ids /\ t[i] # NoTodo)
    IN [k \in 1..Len(found) |-> t[found[k]]]

Msg(type, ids, todos) == [type |-> type, ids |-> ids, todos |-> todos]

\* sendTodosInBatches(todos, batchSize): the SYNC_DATA messages it sends, in
\* order.  The document defines it under "Large Todo List"; nothing calls it.
sendTodosInBatches(todos, batchSize) ==
    LET totalBatches == (Len(todos) + batchSize - 1) \div batchSize
    IN  [b \in 1..totalBatches |->
            [type |-> "SYNC_DATA", ids |-> {},
             todos |-> SubSeq(todos, (b - 1) * batchSize + 1,
                              IF b * batchSize < Len(todos)
                              THEN b * batchSize ELSE Len(todos)),
             batchIndex |-> b - 1,
             totalBatches |-> totalBatches]]

\* ws.send through the relay: forwarded to every other device that is
\* connected to the same session
Forward(d, msgs) ==
    [p \in DOMAIN net |->
        IF p # d /\ ws[p] = "open" /\ sessionId[p] = sessionId[d]
        THEN net[p] \o msgs
        ELSE net[p]]

InitSync ==
    /\ mergeImpl \in MergeImpls
    /\ store0 \in StartDbs
    /\ store = store0
    /\ ws = [d \in DeviceIds |-> "open"]
    /\ net = [d \in DeviceIds |-> <<>>]
    /\ metaSent = [d \in DeviceIds |-> FALSE]
    /\ gotMeta = [d \in DeviceIds |-> FALSE]
    /\ needed = [d \in DeviceIds |-> {}]
    /\ peerDone = [d \in DeviceIds |-> FALSE]
    /\ ScanIdle
    /\ MergeIdle
    /\ RelayIdle
    /\ LockIdle

\* scanAndSync after JOIN: send METADATA_EXCHANGE with every local id.
\* (startSyncSession of the device that shows the QR code is not in the
\* document; both devices are taken to send their metadata this way.)
SendMetadata(d) ==
    /\ ws[d] = "open"
    /\ ~metaSent[d]
    /\ metaSent' = [metaSent EXCEPT ![d] = TRUE]
    /\ net' = Forward(d, <<Msg("METADATA_EXCHANGE", getAllTodoIds(store[d]), <<>>)>>)
    /\ UNCHANGED <<mergeImpl, mergeVars, relayVars, lockVars, scanVars, store0, store, ws, gotMeta, needed, peerDone>>

\* an open device's onmessage takes the next message
Receives(d, type) ==
    /\ ws[d] = "open"
    /\ net[d] # <<>>
    /\ Head(net[d]).type = type

\* completeSyncSession: send SYNC_COMPLETE, then ws.close(); what was still
\* on its way to the device is never handled
completeSyncSession(d, out) ==
    /\ ws' = [ws EXCEPT ![d] = "closed"]
    /\ net' = [Forward(d, out \o <<Msg("SYNC_COMPLETE", {}, <<>>)>>)
                  EXCEPT ![d] = <<>>]

\* a reconciliation that requests every id the peer lists
handleMetadataExchangeAll(d) ==
    /\ Receives(d, "METADATA_EXCHANGE")
    /\ LET myTodoIds == getAllTodoIds(store[d])
           remoteTodoIds == Head(net[d]).ids
           needFromRemote == remoteTodoIds
           remoteNeeds == myTodoIds \ remoteTodoIds
           request == IF needFromRemote # {}
                      THEN <<Msg("REQUEST_SYNC", needFromRemote, <<>>)>>
                      ELSE <<>>
           push == IF remoteNeeds # {}
                   THEN <<Msg("SYNC_DATA", {}, getTodosByIds(store[d], remoteNeeds))>>
                   ELSE <<>>
       IN /\ needed' = [needed EXCEPT ![d] = needFromRemote]
          /\ IF needFromRemote = {} /\ remoteNeeds = {}
             THEN completeSyncSession(d, <<>>)
             ELSE /\ net' = [Forward(d, request \o push) EXCEPT ![d] = Tail(net[d])]
                  /\ ws' = ws
    /\ gotMeta' = [gotMeta EXCEPT ![d] = TRUE]
    /\ UNCHANGED <<mergeImpl, mergeVars, relayVars, lockVars, scanVars, store0, store, metaSent, peerDone>>

handleMetadataExchange(d) ==
    /\ Receives(d, "METADATA_EXCHANGE")
    /\ LET myTodoIds == getAllTodoIds(store[d])
           remoteTodoIds == Head(net[d]).ids
           needFromRemote == remoteTodoIds \ myTodoIds
           remoteNeeds == myTodoIds \ remoteTodoIds
           request == IF needFromRemote # {}
                      THEN <<Msg("REQUEST_SYNC", needFromRemote, <<>>)>>
                      ELSE <<>>
           push == IF remoteNeeds # {}
                   THEN <<Msg("SYNC_DATA", {}, getTodosByIds(store[d], remoteNeeds))>>
                   ELSE <<>>
       IN /\ needed' = [needed EXCEPT ![d] = needFromRemote]
          /\ IF needFromRemote = {} /\ remoteNeeds = {}
             THEN completeSyncSession(d, <<>>)
             ELSE /\ net' = [Forward(d, request \o push) EXCEPT ![d] = Tail(net[d])]
                  /\ ws' = ws
    /\ gotMeta' = [gotMeta EXCEPT ![d] = TRUE]
    /\ UNCHANGED <<mergeImpl, mergeVars, relayVars, lockVars, scanVars, store0, store, metaSent, peerDone>>

handleSyncRequest(d) ==
    /\ Receives(d, "REQUEST_SYNC")
    /\ net' = [Forward(d, <<Msg("SYNC_DATA", {},
                                 getTodosByIds(store[d], Head(net[d]).ids))>>)
                  EXCEPT ![d] = Tail(net[d])]
    /\ UNCHANGED <<mergeImpl, mergeVars, relayVars, lockVars, scanVars, store0, store, ws, metaSent, gotMeta,
                   needed, peerDone>>

\* checkSyncCompletion is called by handleSyncData and not defined in the
\* document: done once everything requested has been received (all offered
\* data was sent by handleMetadataExchange already)
checkSyncCompletion(d, stillNeeded) ==
    IF stillNeeded = {}
    THEN completeSyncSession(d, <<>>)
    ELSE /\ net' = [net EXCEPT ![d] = Tail(net[d])]
         /\ ws' = ws

handleSyncData(d) ==
    /\ Receives(d, "SYNC_DATA")
    /\ LET todos == Head(net[d]).todos
           stillNeeded == needed[d] \ {todos[k].id : k \in 1..Len(todos)}
       IN /\ store' = [store EXCEPT ![d] = mergeAll(store[d], todos)]
          /\ needed' = [needed EXCEPT ![d] = stillNeeded]
          /\ checkSyncCompletion(d, stillNeeded)
    /\ UNCHANGED <<mergeImpl, mergeVars, relayVars, lockVars, scanVars, store0, metaSent, gotMeta, peerDone>>

\* handleSyncComplete is dispatched by handleMessage and not defined in the
\* document: the peer's completion is noted
handleSyncComplete(d) ==
    /\ Receives(d, "SYNC_COMPLETE")
    /\ peerDone' = [peerDone EXCEPT ![d] = TRUE]
    /\ net' = [net EXCEPT ![d] = Tail(net[d])]
    /\ UNCHANGED <<mergeImpl, mergeVars, relayVars, lockVars, scanVars, store0, store, ws, metaSent, gotMeta, needed>>

NextSync ==
    \E d \in DeviceIds :
        \/ SendMetadata(d)
        \/ handleMetadataExchange(d)
        \/ handleSyncRequest(d)
        \/ handleSyncData(d)
        \/ handleSyncComplete(d)

SpecSync == InitSync /\ [][NextSync]_vars

----------------------------------------------------------------------------
(* SpecScan: the Sync Engines from the scan of a pairing payload on *)

\* the pairing payloads a device may scan
QrData == [sessionId : SessionIds, expires : Times]

ScanDbs == {Scenario1, Scenario2}

InitScan ==
    /\ mergeImpl = "engine"
    /\ store0 \in ScanDbs
    /\ store = store0
    /\ ws = [d \in DeviceIds |-> "closed"]
    /\ net = [d \in DeviceIds |-> <<>>]
    /\ metaSent = [d \in DeviceIds |-> FALSE]
    /\ gotMeta = [d \in DeviceIds |-> FALSE]
    /\ needed = [d \in DeviceIds |-> {}]
    /\ peerDone = [d \in DeviceIds |-> FALSE]
    /\ ScanIdle
    /\ MergeIdle
    /\ RelayIdle
    /\ LockIdle

expiredNever(qrData, t) == FALSE

\* Date.now() > qrData.expires
expired(qrData, t) == t > qrData.expires

\* scanAndSync(qrDataString); reach: the WebSocket opens (onopen) rather
\* than fails (onerror).  The relay forwards the JOIN and the
\* METADATA_EXCHANGE to the peer if it is connected to the same session.
scanAndSync(d, qrData, reach) ==
    /\ nscan < MaxScans
    /\ nscan' = nscan + 1
    /\ IF expired(qrData, now)
       THEN /\ scanFailed' = [scanFailed EXCEPT ![d] = TRUE]
            /\ UNCHANGED <<sessionId, ws, net, metaSent, sessionError>>
       ELSE /\ sessionId' = [sessionId EXCEPT ![d] = qrData.sessionId]
            /\ IF reach
               THEN /\ ws' = [ws EXCEPT ![d] = "open"]
                    /\ net' = IF ws[Peer(d)] = "open"
                                 /\ sessionId[Peer(d)] = qrData.sessionId
                              THEN [net EXCEPT ![Peer(d)] = @ \o
                                      <<Msg("JOIN", {}, <<>>),
                                        Msg("METADATA_EXCHANGE",
                                            getAllTodoIds(store[d]), <<>>)>>]
                              ELSE net
                    /\ metaSent' = [metaSent EXCEPT ![d] = TRUE]
                    /\ scanFailed' = [scanFailed EXCEPT ![d] = FALSE]
                    /\ sessionError' = [sessionError EXCEPT ![d] = FALSE]
               ELSE /\ ws' = [ws EXCEPT ![d] = "closed"]
                    /\ scanFailed' = [scanFailed EXCEPT ![d] = TRUE]
                    /\ UNCHANGED <<net, metaSent, sessionError>>
    /\ UNCHANGED <<mergeImpl, mergeVars, relayVars, lockVars, store0, store,
                   gotMeta, needed, peerDone, now>>

\* time passes on the devices' clock
Tick ==
    /\ now < MaxTime
    /\ now' = now + 1
    /\ UNCHANGED <<mergeImpl, mergeVars, relayVars, lockVars, store0, store,
                   ws, net, metaSent, gotMeta, needed, peerDone, sessionId,
                   scanFailed, sessionError, nscan>>

\* an ERROR message reaches the device (at most one per join)
ErrorArrives(d) ==
    /\ ws[d] = "open"
    /\ ~sessionError[d]
    /\ \A k \in 1..Len(net[d]) : net[d][k].type # "ERROR"
    /\ net' = [net EXCEPT ![d] = @ \o <<Msg("ERROR", {}, <<>>)>>]
    /\ UNCHANGED <<mergeImpl, mergeVars, relayVars, lockVars, scanVars, store0,
                   store, ws, metaSent, gotMeta, needed, peerDone>>

\* handleMessage, case 'ERROR': console.error only
handleError(d) ==
    /\ Receives(d, "ERROR")
    /\ sessionError' = [sessionError EXCEPT ![d] = TRUE]
    /\ net' = [net EXCEPT ![d] = Tail(net[d])]
    /\ UNCHANGED <<mergeImpl, mergeVars, relayVars, lockVars, store0, store,
                   ws, metaSent, gotMeta, needed, peerDone, sessionId, now,
                   scanFailed, nscan>>

\* handleMessage has no case 'JOIN' and no default: the message is dropped
handleJoined(d) ==
    /\ Receives(d, "JOIN")
    /\ net' = [net EXCEPT ![d] = Tail(net[d])]
    /\ UNCHANGED <<mergeImpl, mergeVars, relayVars, lockVars, scanVars, store0,
                   store, ws, metaSent, gotMeta, needed, peerDone>>

\* the device's connection closes (ws.onclose: console.log only); what was
\* on its way to the device is lost
onclose(d) ==
    /\ ws[d] = "open"
    /\ ws' = [ws EXCEPT ![d] = "closed"]
    /\ net' = [net EXCEPT ![d] = <<>>]
    /\ UNCHANGED <<mergeImpl, mergeVars, relayVars, lockVars, scanVars, store0,
                   store, metaSent, gotMeta, needed, peerDone>>

NextScan ==
    \/ \E d \in DeviceIds, qrData \in QrData, reach \in BOOLEAN :
           scanAndSync(d, qrData, reach)
    \/ Tick
    \/ \E d \in DeviceIds :
        \/ ErrorArrives(d)
        \/ handleError(d)
        \/ handleJoined(d)
        \/ onclose(d)
        \/ handleMetadataExchange(d)
        \/ handleSyncRequest(d)
        \/ handleSyncData(d)
        \/ handleSyncComplete(d)

SpecScan == InitScan /\ [][NextScan]_vars

----------------------------------------------------------------------------
(* SpecWrites: the relay with registry operations as single steps and each  *)
(* conn.WriteJSON of relayMessage's loop and of the PING case as a stretch  *)
(* with a beginning and an end.  pc: "read" (in ReadJSON), "write" (inside  *)
(* relayMessage's loop, or at the PONG).  The JOIN case is one step, its    *)
(* notification included; it waits at session.mu.Lock() while a relay holds *)
(* session.mu.RLock() on the session.                                       *)

\* a goroutine is inside relayMessage's loop on session s
RelayingIn(s) ==
    \E o \in Conns :
        pc[o] = "write" /\ cur[o].type # "PONG" /\ cur[o].sessionId = s

WJoin(c, s) ==
    /\ pc[c] = "read"
    /\ ~RelayingIn(s)
    /\ HandleJoin(c, s)

\* case of a forwarded type: relayMessage finds the session and enters its
\* loop over Connections
WRelay(c, type, s, d) ==
    /\ conn[c] = "open" /\ pc[c] = "read"
    /\ nmsg < MaxRelays
    /\ sessionID' = [sessionID EXCEPT ![c] = s]
    /\ deviceID' = [deviceID EXCEPT ![c] = d]
    /\ nmsg' = nmsg + 1
    /\ written' = Quiet
    /\ LET msg == Wire(type, s, d, c)
           to == {o \in Conns : relayMessage(sessions, s, d, msg)[o] # <<>>}
       IN  /\ pending' = [pending EXCEPT ![c] = to]
           /\ pc' = [pc EXCEPT ![c] = IF to = {} THEN "read" ELSE "write"]
           /\ cur' = [cur EXCEPT ![c] = IF to = {} THEN NoMsg ELSE msg]
    /\ UNCHANGED <<mergeImpl, mergeVars, syncVars, sessions, conn, ident,
                   joinedTo, leaves, sessionsMu, writer, fwdVars>>

\* case "PING": the PONG is built and is to be written to the sender
WPing(c, s, d) ==
    /\ conn[c] = "open" /\ pc[c] = "read"
    /\ nmsg < MaxRelays
    /\ sessionID' = [sessionID EXCEPT ![c] = s]
    /\ deviceID' = [deviceID EXCEPT ![c] = d]
    /\ nmsg' = nmsg + 1
    /\ written' = Quiet
    /\ pending' = [pending EXCEPT ![c] = {c}]
    /\ pc' = [pc EXCEPT ![c] = "write"]
    /\ cur' = [cur EXCEPT ![c] = Wire("PONG", s, "", c)]
    /\ UNCHANGED <<mergeImpl, mergeVars, syncVars, sessions, conn, ident,
                   joinedTo, leaves, sessionsMu, writer, fwdVars>>

\* conn.WriteJSON is entered for one of the connections still to be written
\* (Go ranges over the map in no fixed order)
WriteBegin(c) ==
    /\ pc[c] = "write" /\ writer[c] = NoConn
    /\ \E o \in pending[c] : writer' = [writer EXCEPT ![c] = o]
    /\ written' = Quiet
    /\ UNCHANGED <<mergeImpl, mergeVars, syncVars, sessions, conn, sessionID,
                   deviceID, ident, joinedTo, leaves, nmsg, pc, cur,
                   sessionsMu, pending, fwdVars>>

\* conn.WriteJSON returns; after the last one the handler is back in ReadJSON
WriteEnd(c) ==
    /\ writer[c] # NoConn
    /\ written' = [Quiet EXCEPT ![writer[c]] = <<cur[c]>>]
    /\ writer' = [writer EXCEPT ![c] = NoConn]
    /\ LET rest == pending[c] \ {writer[c]}
       IN  /\ pending' = [pending EXCEPT ![c] = rest]
           /\ pc' = [pc EXCEPT ![c] = IF rest = {} THEN "read" ELSE "write"]
           /\ cur' = [cur EXCEPT ![c] = IF rest = {} THEN NoMsg ELSE @]
    /\ UNCHANGED <<mergeImpl, mergeVars, syncVars, sessions, conn, sessionID,
                   deviceID, ident, joinedTo, leaves, nmsg, sessionsMu,
                   fwdVars>>

NextWrites ==
    \/ \E c \in Conns : Connect(c)
    \/ \E c \in Conns, s \in SessionIds : WJoin(c, s)
    \/ \E c \in Conns, type \in RelayTypes, s \in SessionIds, d \in FromDevices :
           WRelay(c, type, s, d)
    \/ \E c \in Conns, s \in SessionIds : \E d \in PingDevices(c) : WPing(c, s, d)
    \/ \E c \in Conns : WriteBegin(c)
    \/ \E c \in Conns : WriteEnd(c)

SpecWrites == InitRelay /\ [][NextWrites]_vars

----------------------------------------------------------------------------
(* SpecThree: one sync run of three Sync Engines joined to one session; the *)
(* relay forwards every message of a device to the two others.              *)

ThreeDevices == DeviceIds \cup {"devC"}

\* a table with the given rows for a and b
ThreeTable(ra, rb) ==
    [i \in TodoIds |-> IF i = "a" THEN ra ELSE IF i = "b" THEN rb ELSE NoTodo]

ThreeDb(ta, tb, tc) ==
    [d \in ThreeDevices |-> IF d = "devA" THEN ta ELSE IF d = "devB" THEN tb ELSE tc]

\* the contents of the three devices when the run starts: one record on
\* devA only; one id in two versions on devA and devB; one id on all three,
\* the newer version on devB
ThreeDbs ==
    {ThreeDb(ThreeTable(Row("a", 1, "p", FALSE), NoTodo), EmptyDb, EmptyDb),
     ThreeDb(ThreeTable(Row("a", 1, "p", FALSE), NoTodo),
             ThreeTable(Row("a", MaxTime, "q", FALSE), NoTodo),
             EmptyDb),
     ThreeDb(ThreeTable(Row("a", 1, "p", FALSE), NoTodo),
             ThreeTable(Row("a", MaxTime, "q", FALSE), NoTodo),
             ThreeTable(Row("a", 1, "p", FALSE), NoTodo))}

InitThree ==
    /\ mergeImpl = "engine"
    /\ store0 \in ThreeDbs
    /\ store = store0
    /\ ws = [d \in ThreeDevices |-> "open"]
    /\ net = [d \in ThreeDevices |-> <<>>]
    /\ metaSent = [d \in ThreeDevices |-> FALSE]
    /\ gotMeta = [d \in ThreeDevices |-> FALSE]
    /\ needed = [d \in ThreeDevices |-> {}]
    /\ peerDone = [d \in ThreeDevices |-> FALSE]
    /\ sessionId = [d \in ThreeDevices |-> ""]
    /\ now = 0
    /\ scanFailed = [d \in ThreeDevices |-> FALSE]
    /\ sessionError = [d \in ThreeDevices |-> FALSE]
    /\ nscan = 0
    /\ MergeIdle
    /\ RelayIdle
    /\ LockIdle

NextThree ==
    \E d \in ThreeDevices :
        \/ SendMetadata(d)
        \/ handleMetadataExchange(d)
        \/ handleSyncRequest(d)
        \/ handleSyncData(d)
        \/ handleSyncComplete(d)

SpecThree == InitThree /\ [][NextThree]_vars

----------------------------------------------------------------------------
(* SpecForward: three clients joined to one session send envelopes; the    *)
(* relay decodes each into a SyncMessage, looks the session up and writes  *)
(* the message to every other entry of Connections, one WriteJSON after    *)
(* the other.  Each handler goroutine is in ReadJSON ("read") or inside    *)
(* relayMessage's loop ("write"); goroutines of different connections run  *)
(* at the same time.  net[d] holds the frames device d has received, in    *)
(* the order of their arrival.                                             *)

\* a JSON field that is left out
Absent == "absent"

\* the device id of each of the three clients
FwdDev(c) == IF c = "c1" THEN "devA" ELSE IF c = "c2" THEN "devB" ELSE "devC"

\* what the clients send (type, sessionId, toDevice, payload): a message of
\* the Sync Engine, a message addressed to one device, and a message for a
\* session the relay does not have
FwdInputs ==
    {<<"SYNC_DATA", "A", Absent, "p">>,
     <<"ERROR", "A", "devB", "q">>,
     <<"SYNC_DATA", "B", Absent, "p">>}

\* the clients that send; the client of c2 (devB) receives
Senders == {"c1", "c3"}

\* the envelope a client puts on its connection
Envelope(type, s, d, to, ts, payload) ==
    [type |-> type, sessionId |-> s, fromDevice |-> d, toDevice |-> to,
     timestamp |-> ts, payload |-> payload]

\* conn.ReadJSON(&msg): a field that is left out keeps Go's zero value
ReadJSON(json) ==
    [Type |-> json.type, SessionID |-> json.sessionId,
     FromDevice |-> json.fromDevice,
     ToDevice |-> IF json.toDevice = Absent THEN "" ELSE json.toDevice,
     Timestamp |-> json.timestamp, Payload |-> json.payload]

\* the frame conn.WriteJSON(msg) encodes: toDevice is omitempty
WriteJSON(msg) ==
    [type |-> msg.Type, sessionId |-> msg.SessionID,
     fromDevice |-> msg.FromDevice,
     toDevice |-> IF msg.ToDevice = "" THEN Absent ELSE msg.ToDevice,
     timestamp |-> msg.Timestamp, payload |-> msg.Payload]

\* a frame whose bytes come from two WriteJSON calls at once
Garbled == [type |-> "garbled"]

\* a session of the three clients
FwdSession ==
    [exists |-> TRUE,
     Connections |-> [d \in ThreeDevices |->
                         CHOOSE c \in Conns : FwdDev(c) = d],
     age |-> 1]

\* the connections relayMessage(msg.SessionID, msg.FromDevice, &msg) calls
\* WriteJSON on: every entry of the session's Connections whose key is not
\* fromDevice
FwdTargets(reg, msg) ==
    IF msg.SessionID \in SessionKeys /\ reg[msg.SessionID].exists
    THEN LET conns == reg[msg.SessionID].Connections
         IN  {conns[d] : d \in DOMAIN conns \ {msg.FromDevice}} \ {NoConn}
    ELSE {}

\* s with x put in after its first p elements
InsertAt(s, p, x) == SubSeq(s, 1, p) \o <<x>> \o SubSeq(s, p + 1, Len(s))

InitForward ==
    /\ mergeImpl = "engine"
    /\ MergeIdle
    /\ store0 = [d \in DeviceIds |-> EmptyDb]
    /\ store = [d \in DeviceIds |-> EmptyDb]
    /\ ws = [d \in ThreeDevices |-> "open"]
    /\ net = [d \in ThreeDevices |-> <<>>]
    /\ metaSent = [d \in DeviceIds |-> FALSE]
    /\ gotMeta = [d \in DeviceIds |-> FALSE]
    /\ needed = [d \in DeviceIds |-> {}]
    /\ peerDone = [d \in DeviceIds |-> FALSE]
    /\ ScanIdle
    /\ sessions = [s \in SessionKeys |-> IF s = "A" THEN FwdSession ELSE NoSession]
    /\ conn = [c \in Conns |-> "open"]
    /\ sessionID = [c \in Conns |-> "A"]
    /\ deviceID = [c \in Conns |-> FwdDev(c)]
    /\ written = Quiet
    /\ ident = [c \in Conns |-> <<"A", FwdDev(c)>>]
    /\ joinedTo = [c \in Conns |-> {"A"}]
    /\ leaves = [c \in Conns |-> <<>>]
    /\ nmsg = 0
    /\ LockIdle

\* the client of c sends an envelope (timestamp: the clock, which advances
\* with every message); the handler reads it, takes sessionID and deviceID
\* from it and enters relayMessage
FwdRelay(c, type, s, to, payload) ==
    /\ conn[c] = "open" /\ pc[c] = "read"
    /\ nmsg < MaxSends
    /\ nmsg' = nmsg + 1
    /\ LET msg == ReadJSON(Envelope(type, s, FwdDev(c), to, nmsg + 1, payload))
           to_ == {o \in FwdTargets(sessions, msg) : conn[o] = "open"}
       IN  /\ sessionID' = [sessionID EXCEPT ![c] = msg.SessionID]
           /\ deviceID' = [deviceID EXCEPT ![c] = msg.FromDevice]
           /\ pending' = [pending EXCEPT ![c] = to_]
           /\ pc' = [pc EXCEPT ![c] = IF to_ = {} THEN "read" ELSE "write"]
           /\ cur' = [cur EXCEPT ![c] = IF to_ = {} THEN NoMsg ELSE msg]
    /\ written' = Quiet
    /\ UNCHANGED <<mergeImpl, mergeVars, syncVars, sessions, conn, ident,
                   joinedTo, leaves, sessionsMu, writer, fwdVars>>

\* conn.WriteJSON(msg) is entered for one of the entries still to be written
\* (range over a map has no fixed order)
FwdWriteBegin(c) ==
    /\ pc[c] = "write" /\ writer[c] = NoConn
    /\ \E o \in pending[c] :
        /\ writer' = [writer EXCEPT ![c] = o]
        /\ mark' = (c :> Len(net[FwdDev(o)])) @@ mark
        /\ raced' = IF \E h \in Conns \ {c} : writer[h] = o
                    THEN raced \cup {c} \cup {g \in Conns : writer[g] = o}
                    ELSE raced
    /\ written' = Quiet
    /\ UNCHANGED <<mergeImpl, mergeVars, syncVars, sessions, conn, sessionID,
                   deviceID, ident, joinedTo, leaves, nmsg, pc, cur,
                   sessionsMu, pending>>

\* the handler after a WriteJSON: the next entry, or back to ReadJSON
FwdWritten(c) ==
    LET rest == pending[c] \ {writer[c]}
    IN  /\ writer' = [writer EXCEPT ![c] = NoConn]
        /\ raced' = raced \ {c}
        /\ pending' = [pending EXCEPT ![c] = rest]
        /\ pc' = [pc EXCEPT ![c] = IF rest = {} THEN "read" ELSE "write"]
        /\ cur' = [cur EXCEPT ![c] = IF rest = {} THEN NoMsg ELSE @]

\* a frame that may overtake the frames written before it
FwdLandsAnywhere(c, frame) ==
    LET o == writer[c]
    IN  \E p \in 0..Len(net[FwdDev(o)]) :
            /\ net' = [net EXCEPT ![FwdDev(o)] = InsertAt(@, p, frame)]
            /\ mark' = [g \in DOMAIN mark \ {c} |-> mark[g]]
            /\ written' = [Quiet EXCEPT ![o] = <<frame>>]

\* the frame reaches the client of o at some moment between the call and
\* the return of WriteJSON
FwdLands(c, frame) ==
    LET o == writer[c]
    IN  \E p \in mark[c]..Len(net[FwdDev(o)]) :
            /\ net' = [net EXCEPT ![FwdDev(o)] = InsertAt(@, p, frame)]
            /\ mark' = [g \in DOMAIN mark \ {c} |->
                           IF writer[g] = o /\ mark[g] > p
                           THEN mark[g] + 1
                           ELSE mark[g]]
            /\ written' = [Quiet EXCEPT ![o] = <<frame>>]

\* conn.WriteJSON returns with the frame written
FwdWriteEnd(c) ==
    /\ writer[c] # NoConn
    /\ FwdLands(c, WriteJSON(cur[c]))
    /\ FwdWritten(c)
    /\ UNCHANGED <<mergeImpl, mergeVars, store0, store, ws, metaSent, gotMeta,
                   needed, peerDone, scanVars, sessions, conn, sessionID,
                   deviceID, ident, joinedTo, leaves, nmsg, sessionsMu>>

\* two goroutines were inside WriteJSON on one gorilla/websocket connection,
\* which has one write buffer and no lock of its own: the bytes that go out
\* are a mixture of the two frames
FwdWriteGarbled(c) ==
    /\ writer[c] # NoConn /\ c \in raced
    /\ FwdLands(c, Garbled)
    /\ FwdWritten(c)
    /\ UNCHANGED <<mergeImpl, mergeVars, store0, store, ws, metaSent, gotMeta,
                   needed, peerDone, scanVars, sessions, conn, sessionID,
                   deviceID, ident, joinedTo, leaves, nmsg, sessionsMu>>

\* ... or the library notices the second writer and panics: the handler
\* unwinds through relayMessage's deferred RUnlock and its own deferred
\* conn.Close(); removeConnection, which is not deferred, is not reached
FwdWritePanics(c) ==
    /\ writer[c] # NoConn /\ c \in raced
    /\ conn' = [conn EXCEPT ![c] = "gone"]
    /\ writer' = [writer EXCEPT ![c] = NoConn]
    /\ raced' = raced \ {c}
    /\ mark' = [g \in DOMAIN mark \ {c} |-> mark[g]]
    /\ pending' = [pending EXCEPT ![c] = {}]
    /\ pc' = [pc EXCEPT ![c] = "read"]
    /\ cur' = [cur EXCEPT ![c] = NoMsg]
    /\ written' = Quiet
    /\ UNCHANGED <<mergeImpl, mergeVars, syncVars, sessions, sessionID,
                   deviceID, ident, joinedTo, leaves, nmsg, sessionsMu>>

NextForward ==
    \/ \E c \in Senders, in \in FwdInputs :
           FwdRelay(c, in[1], in[2], in[3], in[4])
    \/ \E c \in Conns : FwdWriteBegin(c)
    \/ \E c \in Conns : FwdWriteEnd(c)
    \/ \E c \in Conns : FwdWriteGarbled(c)
    \/ \E c \in Conns : FwdWritePanics(c)

SpecForward == InitForward /\ [][NextForward]_vars

----------------------------------------------------------------------------
(* Claims on the merge rule (SpecMerge) *)

\* the record of MergeId before the merges and now
Local0 == m0[MergeId]
LocalNow == mcur[MergeId]

\* every incoming version has been merged, one at a time
AllMerged == mpending = {} /\ mapplied = 0

\* some fixed order of the incoming versions
CanonOrder(V) == CHOOSE s \in Orders(V) : TRUE

\* C7: a replica holding one version that merges the other side's version of
\* the same id, with identical updated_at and a different device_id, ends
\* with the payload of the version whose device_id is lexicographically
\* smaller (so both replicas agree).
C7TieBreak ==
    \A v \in mset :
        (/\ AllMerged
         /\ mset = {v}
         /\ Local0 # NoTodo
         /\ v.updated_at = Local0.updated_at
         /\ v.device_id # Local0.device_id)
        => LocalNow.payload =
              (IF StrLess(v.device_id, Local0.device_id)
               THEN v.payload ELSE Local0.payload)

\* C8: whatever the order in which the incoming versions were merged, the
\* local record ends the same (here: the same as merging them in one fixed
\* order).
C8OrderIndependent ==
    AllMerged => mcur = mergeAll(m0, CanonOrder(mset))

\* C9: applying the same SYNC_DATA batch a second time leaves the replica
\* exactly as the first application left it.
C9Idempotent ==
    mapplied = 2 => mcur = mafter1

\* a batch of two records that changed the replica has been applied twice
C9Witness ==
    /\ mapplied = 2
    /\ Len(mbatch) = 2
    /\ mafter1 # m0
    /\ Local0 # NoTodo

\* C10: two versions r1, r2 of an id the replica lacks, updated_at(r1) <
\* updated_at(r2), merged in either order: the replica holds r2's payload,
\* updated_at and deleted flag.
C10Commutative ==
    \A r1, r2 \in mset :
        (/\ AllMerged
         /\ mset = {r1, r2}
         /\ Local0 = NoTodo
         /\ r1.updated_at < r2.updated_at)
        => /\ LocalNow.payload = r2.payload
           /\ LocalNow.updated_at = r2.updated_at
           /\ LocalNow.deleted = r2.deleted

\* r1 was merged first and r2 then overwrote it: the row still carries r1's
\* device_id
C10Witness ==
    \E r1, r2 \in mset :
        /\ AllMerged
        /\ mset = {r1, r2}
        /\ Local0 = NoTodo
        /\ r1.updated_at < r2.updated_at
        /\ r1.payload # r2.payload
        /\ r1.deleted # r2.deleted
        /\ LocalNow.device_id = r1.device_id
        /\ r1.device_id # r2.device_id

----------------------------------------------------------------------------
(* Claims on the two-device sync run (SpecSync) *)

\* both devices sent their metadata and handled the peer's, and nothing is
\* left to deliver
SyncDone ==
    \A d \in DeviceIds : metaSent[d] /\ gotMeta[d] /\ net[d] = <<>>

Version(r) == <<r.payload, r.updated_at, r.deleted>>

\* C1: after a complete sync run both replicas hold the same ids and, for
\* every id, the same version: the one with the greater updated_at of the two
\* they started with.
C1Convergence ==
    SyncDone =>
        \A i \in TodoIds :
            LET x == store["devA"][i]
                y == store["devB"][i]
                x0 == store0["devA"][i]
                y0 == store0["devB"][i]
            IN /\ (x = NoTodo) <=> (y = NoTodo)
               /\ Version(x) = Version(y)
               /\ x0.updated_at > y0.updated_at => Version(x) = Version(x0)
               /\ y0.updated_at > x0.updated_at => Version(x) = Version(y0)

\* C6: a tombstone that is newer than the peer's active copy of the same id
\* is on both replicas after a complete sync run.
C6DeletionPropagates ==
    \A d \in DeviceIds, i \in TodoIds :
        (/\ SyncDone
         /\ store0[d][i].deleted
         /\ store0[Peer(d)][i] # NoTodo
         /\ ~store0[Peer(d)][i].deleted
         /\ store0[d][i].updated_at > store0[Peer(d)][i].updated_at)
        => store[d][i].deleted /\ store[Peer(d)][i].deleted

----------------------------------------------------------------------------
(* Claims on the relay (Spec) *)

\* the messages the latest step wrote to connection c
WrittenTo(c) == {written[c][k] : k \in 1..Len(written[c])}

\* c is an entry of session s's Connections
Registered(c, s) ==
    /\ s \in SessionKeys
    /\ sessions[s].exists
    /\ \E d \in DeviceIds : sessions[s].Connections[d] = c

\* C2: session isolation.  A forwarded message (a JOIN or a message of a
\* relayed type) whose session_id is A is written only to connections that
\* are entries of session A and that sent a JOIN for A; so it is never
\* written to the connection of a participant joined only to another
\* session B.
C2SessionIsolation ==
    \A c \in Conns : \A m \in WrittenTo(c) :
        m.type # "PONG" =>
            /\ m.sessionId \in joinedTo[c]
            /\ Registered(c, m.sessionId)

\* a message of session A reaches a participant of A while another open
\* connection is a participant of B only and is written nothing
C2Witness ==
    \E c, o \in Conns :
        /\ c # o
        /\ \E m \in WrittenTo(c) : m.type \in RelayTypes /\ m.sessionId = "A"
        /\ conn[o] = "open"
        /\ joinedTo[o] = {"B"}
        /\ Registered(o, "B")
        /\ written[o] = <<>>

C5LeaveOnDisconnect ==
    \A c \in Conns :
        (conn[c] = "gone" /\ ident[c] # NoIdent) =>
            /\ leaves[c] = << ident[c] >>
            /\ ~Registered(c, ident[c][1])

----------------------------------------------------------------------------
(* Claims on the relay's goroutines (SpecLocks) *)

\* c's handler has read a JOIN for a session that has participants already
JoinPending(c) ==
    /\ pc[c] = "join"
    /\ \E o \in Conns \ {c} : Registered(o, sessionID[c])

\* c's JOIN has been handled: c is an entry of the session, the JOIN has just
\* been written to every other open participant and not to c, and c's
\* handler is back in ReadJSON
JoinAnnounced(c) ==
    /\ pc[c] = "read"
    /\ Registered(c, sessionID[c])
    /\ written[c] = <<>>
    /\ \A o \in Conns \ {c} :
           (Registered(o, sessionID[c]) /\ conn[o] = "open") =>
               \E m \in WrittenTo(o) : m.type = "JOIN" /\ m.via = c

\* C4: JOIN is announced.  Whenever a handler has read a JOIN for a session
\* that already has participants, it eventually has added the connection,
\* forwarded the JOIN to every other participant (not to the sender) and
\* returned to read the next message.
C4JoinAnnounced ==
    \A c \in Conns : JoinPending(c) ~> JoinAnnounced(c)

----------------------------------------------------------------------------
(* Claims on the sweep and on session lifetime (Spec) *)

\* the age of session s in minutes
AgeOf(reg, s) == AgeMinutes[reg[s].age]

\* C11: sweep expiry threshold.  A sweep removes every session whose age
\* exceeds 15 minutes and leaves none of its participants' connections
\* open; every session whose age is at most 15 minutes stays in the map with
\* its Connections and CreatedAt as they were.
C11SweepExpiry ==
    [][cleanupSessions =>
        \A s \in SessionIds :
            /\ (sessions[s].exists /\ AgeOf(sessions, s) > 15) =>
                   /\ ~sessions'[s].exists
                   /\ \A d \in DeviceIds :
                          sessions[s].Connections[d] # NoConn =>
                              conn'[sessions[s].Connections[d]] # "open"
            /\ (sessions[s].exists /\ AgeOf(sessions, s) <= 15) =>
                   sessions'[s] = sessions[s]]_vars

\* a sweep has closed a connection (its session was 16 minutes old) while a
\* session that is 14 minutes old is in the map with an open participant
C11Witness ==
    /\ \E c \in Conns : conn[c] = "swept"
    /\ \E s \in SessionIds, o \in Conns :
           /\ sessions[s].exists /\ AgeOf(sessions, s) = 14
           /\ Registered(o, s) /\ conn[o] = "open"

\* C12: session lifetime bound.  The map never holds a session whose age
\* exceeds 15 minutes, and no message is forwarded through one.
C12LifetimeBound ==
    /\ \A s \in SessionIds :
           sessions[s].exists => AgeOf(sessions, s) <= 15
    /\ \A c \in Conns : \A m \in WrittenTo(c) :
           m.type # "PONG" => AgeOf(sessions, m.sessionId) <= 15

----------------------------------------------------------------------------
(* Claims on locking across sessions (SpecLocks) *)

\* c's handler stands at a sessionsMu.Lock() or sessionsMu.RLock()
AtSessionsMu(c) == pc[c] \in {"join", "relay", "join_relay", "remove"}

\* C13: two sessions never block each other.  A handler that stands at a
\* lock for a join, relay or leave on one session is not kept waiting by a
\* lock that another handler holds for an operation on a different session.
C13NoCrossSessionWait ==
    \A c, o \in Conns :
        (c # o /\ AtSessionsMu(c) /\ sessionsMu = o) => sessionID[o] = sessionID[c]

----------------------------------------------------------------------------
(* Claims on the end of a sync run (SpecSync) *)

\* nothing is left to do: both devices sent their metadata and no open
\* device has a message waiting
SyncQuiet ==
    \A d \in DeviceIds : metaSent[d] /\ (ws[d] = "open" => net[d] = <<>>)

\* d has run completeSyncSession: SYNC_COMPLETE sent, WebSocket closed
Completed(d) == ws[d] = "closed"

\* C14: sync completes on both sides.  When a two-device run has come to
\* rest, each device has sent SYNC_COMPLETE and completed, also a device that
\* had records to offer and nothing to request.
C14SyncCompletes ==
    SyncQuiet => \A d \in DeviceIds : Completed(d)

----------------------------------------------------------------------------
(* Claims on malformed envelopes and on relayMessage's loop (SpecEnvelope) *)

\* the step handles a message from c with an unknown type or without a
\* session id
Malformed(c) ==
    \/ \E s \in EnvSessions : HandleUnknown(c, EnvUnknownType, s, Dev(c))
    \/ \E d \in EnvDevices(c) : HandleRelay(c, EnvRelayType, "", d)
    \/ HandleJoin(c, "")

\* C15: a malformed envelope is answered.  A step that handles a message
\* with an unknown type or a missing session_id writes an ERROR message to
\* the connection the message came from.
C15MalformedAnswered ==
    [][\A c \in Conns :
          Malformed(c) => \E k \in 1..Len(written'[c]) : written'[c][k].type = "ERROR"]_vars

\* C16: a malformed envelope is dropped.  A step that handles a message with
\* an unknown type or a missing session_id writes to no other connection,
\* leaves the sessions map as it was and leaves the sender's connection open.
C16MalformedDropped ==
    [][\A c \in Conns :
          Malformed(c) =>
              /\ \A o \in Conns \ {c} : written'[o] = <<>>
              /\ sessions' = sessions
              /\ conn'[c] = "open"]_vars

\* the entries of session s under a key other than d
Others(reg, s, d) ==
    {reg[s].Connections[k] : k \in DeviceIds \ {d}} \ {NoConn}

----------------------------------------------------------------------------
(* Claims on connections that do not join (SpecLocks) *)

\* c's handler has read a JOIN
SentJoin(c) == ident[c] # NoIdent \/ cur[c].type = "JOIN"

\* C17: a connection that never sends JOIN is rejected.  An open connection
\* whose handler has read no JOIN eventually either sends one or is no
\* longer open.
C17JoinGracePeriod ==
    \A c \in Conns :
        (conn[c] = "open" /\ ~SentJoin(c)) ~> (conn[c] # "open" \/ SentJoin(c))

----------------------------------------------------------------------------
(* Claims on the registry's operations (Spec) *)

\* the keys of session s that have an entry
Participants(reg, s) == {d \in DeviceIds : reg[s].Connections[d] # NoConn}

\* C19: no empty session survives.  Every session in the map has at least
\* one entry (so the leave of the last one deletes the session in the same
\* step), and a removeConnection for a session id that is not in the map or
\* a device id that is not an entry leaves the map as it was.
C19NoEmptySession ==
    /\ [](\A s \in SessionKeys : sessions[s].exists => Participants(sessions, s) # {})
    /\ [][\A c \in Conns :
             (/\ Disconnect(c)
              /\ \/ ~sessions[sessionID[c]].exists
                 \/ deviceID[c] \notin Participants(sessions, sessionID[c]))
             => sessions' = sessions]_vars

\* a connection has left the session it joined, as its last participant,
\* and the session is gone; another connection's leave named no entry
C19Witness ==
    /\ \E c \in Conns :
           /\ conn[c] = "gone" /\ ident[c] # NoIdent
           /\ leaves[c] = << ident[c] >>
           /\ ~sessions[ident[c][1]].exists
    /\ \E o \in Conns :
           /\ conn[o] = "gone"
           /\ leaves[o] # << ident[o] >>

\* C20: lazy join.  A step that handles a JOIN of connection c for session
\* s leaves c as the entry of its device id in s; if s was not in the map it
\* is new (age 0) with that single entry, and if it was, its CreatedAt and
\* its other entries are as before.  No other session changes.
C20LazyJoin ==
    [][\A c \in Conns, s \in SessionIds :
          HandleJoin(c, s) =>
              /\ sessions'[s].exists
              /\ sessions'[s].Connections[Dev(c)] = c
              /\ IF sessions[s].exists
                 THEN /\ sessions'[s].age = sessions[s].age
                      /\ \A k \in DeviceIds \ {Dev(c)} :
                             sessions'[s].Connections[k] = sessions[s].Connections[k]
                 ELSE /\ AgeOf(sessions', s) = 0
                      /\ Participants(sessions', s) = {Dev(c)}
              /\ \A t \in SessionKeys \ {s} : sessions'[t] = sessions[t]]_vars

\* a JOIN has just been forwarded in a session that is 14 minutes old and
\* has both device ids as entries: the join went into an existing session
C20Witness ==
    \E s \in SessionIds, c \in Conns :
        /\ sessions[s].exists /\ AgeOf(sessions, s) = 14
        /\ Participants(sessions, s) = DeviceIds
        /\ \E m \in WrittenTo(c) : m.type = "JOIN" /\ m.sessionId = s

----------------------------------------------------------------------------
(* Claims on PING (Spec) *)

\* C21: PING is answered privately.  A step that handles a PING read from
\* connection c writes exactly one message, a PONG, to c, writes nothing to
\* any other connection and leaves the sessions map as it was.
C21PingPrivate ==
    [][\A c \in Conns, s \in SessionIds : \A d \in PingDevices(c) :
          HandlePing(c, s, d) =>
              /\ Len(written'[c]) = 1 /\ written'[c][1].type = "PONG"
              /\ \A o \in Conns \ {c} : written'[o] = <<>>
              /\ sessions' = sessions]_vars

\* a PONG has just been written to a participant of a session that has
\* another open participant, which was written nothing
C21Witness ==
    \E c, o \in Conns, s \in SessionIds :
        /\ c # o
        /\ \E m \in WrittenTo(c) : m.type = "PONG" /\ m.sessionId = s
        /\ Registered(c, s) /\ Registered(o, s) /\ conn[o] = "open"
        /\ written[o] = <<>>

----------------------------------------------------------------------------
(* Claims on the answer to REQUEST_SYNC (SpecSync) *)

Ceil(n, k) == (n + k - 1) \div k

\* what a step appended to the messages on their way to device d
SentTo(d) == SubSeq(net'[d], Len(net[d]) + 1, Len(net'[d]))

RECURSIVE Concat(_)
Concat(seqs) == IF seqs = <<>> THEN <<>> ELSE Head(seqs) \o Concat(Tail(seqs))

\* C22: chunking of a response.  A step that answers a REQUEST_SYNC for n
\* records sends ceil(n / ChunkSize) SYNC_DATA messages, numbered 0, 1, ...
\* in batchIndex, each with totalBatches = ceil(n / ChunkSize) and at most
\* ChunkSize records, which together are the requested records, each once.
C22Chunking ==
    [][\A d \in DeviceIds :
          (handleSyncRequest(d) /\ ws[Peer(d)] = "open") =>
              LET todos == getTodosByIds(store[d], Head(net[d]).ids)
                  total == Ceil(Len(todos), ChunkSize)
                  sent == SentTo(Peer(d))
              IN  /\ Len(sent) = total
                  /\ \A j \in 1..Len(sent) :
                         /\ sent[j].type = "SYNC_DATA"
                         /\ {"batchIndex", "totalBatches"} \subseteq DOMAIN sent[j]
                         /\ sent[j].batchIndex = j - 1
                         /\ sent[j].totalBatches = total
                         /\ Len(sent[j].todos) <= ChunkSize
                  /\ Concat([j \in 1..Len(sent) |-> sent[j].todos]) = todos]_vars

----------------------------------------------------------------------------
(* Claims on the scan of a pairing payload and on failure (SpecScan) *)

\* C23: an expired pairing payload is rejected before any network call.  A
\* scanAndSync of a payload whose expires is earlier than the current time
\* throws, opens no connection, sends nothing (no JOIN reaches the peer) and
\* leaves this.sessionId and the todos table as they were.
C23ExpiredRejected ==
    [][\A d \in DeviceIds, qrData \in QrData, reach \in BOOLEAN :
          (scanAndSync(d, qrData, reach) /\ qrData.expires < now) =>
              /\ scanFailed'[d]
              /\ ws' = ws
              /\ net' = net
              /\ sessionId' = sessionId
              /\ store' = store]_vars

\* a device whose latest scan was rejected as expired while it and its peer
\* were connected (a failed connection would have left it closed)
C23Witness ==
    \E d \in DeviceIds :
        /\ scanFailed[d]
        /\ ws[d] = "open"
        /\ ws[Peer(d)] = "open"
        /\ sessionId[Peer(d)] = sessionId[d]

ProtocolTypes == {"REQUEST_SYNC", "SYNC_DATA", "SYNC_COMPLETE"}

\* the device's session has failed: it handled an ERROR message since it
\* joined, or its connection closed
Failed(d) ==
    \/ sessionError[d]
    \/ ws[d] = "closed" /\ sessionId[d] # ""

\* no protocol message of device d reaches its peer in this step
SendsNothing(d) ==
    \A k \in 1..Len(SentTo(Peer(d))) :
        SentTo(Peer(d))[k].type \notin ProtocolTypes

\* C24: FAILED is final.  Once a device's connection has closed or it has
\* handled an ERROR message, it sends no REQUEST_SYNC, SYNC_DATA or
\* SYNC_COMPLETE for that session.
C24FailedSendsNothing ==
    [][\A d \in DeviceIds : Failed(d) => SendsNothing(d)]_vars

----------------------------------------------------------------------------
(* Claims on the relay's locks (SpecLocks) *)

\* goroutine c waits for sessionsMu while holding it itself
SelfWait(c) == AtSessionsMu(c) /\ sessionsMu = c

\* C25: registry operations never deadlock.  No handler goroutine waits for
\* the session-map lock while it is itself the goroutine holding it.
C25NoSelfDeadlock ==
    \A c \in Conns : ~SelfWait(c)

\* C26: no I/O under the registry lock.  A goroutine holds sessionsMu only
\* while it mutates the map or a session's Connections: it is not inside
\* relayMessage, which writes to connections, with the lock held.
C26LockOnlyForMutation ==
    \A c \in Conns : sessionsMu = c => pc[c] = "join_add"

----------------------------------------------------------------------------
(* Claims on writes to a connection (SpecWrites) *)

----------------------------------------------------------------------------
(* Claims on two connections with one device id (Spec) *)

\* c and o joined the same session under the same device id, c's handler
\* still holds that session and device id, and o is open
SameDevicePair(c, o) ==
    /\ c # o
    /\ ident[c] # NoIdent
    /\ ident[o] = ident[c]
    /\ sessionID[c] = ident[c][1] /\ deviceID[c] = ident[c][2]
    /\ conn[o] = "open"

\* C28: a disconnect removes only the disconnecting connection.  When one of
\* two connections that joined session S under the same device id ends, the
\* other, still open, is a registered participant of S afterwards.
C28DisconnectKeepsOther ==
    [][\A c, o \in Conns :
          (SameDevicePair(c, o) /\ Disconnect(c)) =>
              Registered(o, ident[o][1])']_vars

----------------------------------------------------------------------------
(* Claims on the sweep against a join in progress (SpecLocks) *)

\* goroutine c is inside handleJoin for a session that is due for the sweep
JoinOnExpired(c) ==
    /\ pc[c] \in {"join_add", "join_relay"}
    /\ sessionID[c] \in Expired(sessions)

\* C29: the sweep does not race a live join.  From the moment handleJoin has
\* looked the session up (or created it) the session stays in the registry
\* until the connection is added to it, and once added the connection is a
\* participant of a session that is in the registry, or was closed by the
\* sweep: it is never open and registered only in a removed session.
C29SweepNoRace ==
    \A c \in Conns :
        /\ pc[c] = "join_add" => sessions[sessionID[c]].exists
        /\ pc[c] = "join_relay" =>
               (Registered(c, sessionID[c]) \/ conn[c] = "swept")

\* a connection was added to a session although the session had become due
\* for the sweep while handleJoin was running
C29Witness ==
    \E c \in Conns :
        /\ JoinOnExpired(c)
        /\ pc[c] = "join_relay"
        /\ conn[c] = "open"
        /\ Registered(c, sessionID[c])

----------------------------------------------------------------------------
(* Claims on the reconciliation (SpecSync) *)

\* the ids of the records in a todos payload
IdsOf(todos) == {todos[k].id : k \in 1..Len(todos)}

\* the messages of a type among those a step sent to device d
SentOfType(d, type) ==
    {SentTo(d)[k] : k \in {j \in 1..Len(SentTo(d)) : SentTo(d)[j].type = type}}

----------------------------------------------------------------------------
(* Claims on the metadata exchange after both joins (SpecScan) *)

\* both devices joined the same session by one scan each and neither
\* connection has closed since
BothJoined ==
    /\ nscan = 2
    /\ \A d \in DeviceIds : ws[d] = "open" /\ ~scanFailed[d]
    /\ sessionId["devA"] = sessionId["devB"]

\* the peer's METADATA_EXCHANGE is on its way to device d
MetadataUnderway(d) ==
    \E k \in 1..Len(net[d]) : net[d][k].type = "METADATA_EXCHANGE"

\* C31: metadata reaches the peer.  Once two devices have joined the same
\* session, in either order and without a disconnect, each of them has
\* handled the other's METADATA_EXCHANGE or has it on its way: the metadata
\* of the device that joined first is not lost.
C31MetadataReachesPeer ==
    BothJoined =>
        \A d \in DeviceIds :
            metaSent[Peer(d)] => (gotMeta[d] \/ MetadataUnderway(d))

----------------------------------------------------------------------------
(* Claims on the end of a session (SpecSync) *)

\* device d closes its connection in this step
Closes(d) == ws[d] = "open" /\ ws'[d] = "closed"

\* a REQUEST_SYNC or SYNC_DATA of the peer is on its way to d behind the
\* message d is handling
DataUndelivered(d) ==
    \E k \in 2..Len(net[d]) : net[d][k].type \in {"REQUEST_SYNC", "SYNC_DATA"}

\* C32: close only after both completions.  A device closes its connection
\* only when it has seen the peer's SYNC_COMPLETE and no REQUEST_SYNC or
\* SYNC_DATA of the peer is still on its way to it.
C32CloseAfterBoth ==
    [][\A d \in DeviceIds :
          Closes(d) => (peerDone[d] /\ ~DataUndelivered(d))]_vars

----------------------------------------------------------------------------
(* Claims on three devices in one session (SpecThree) *)

\* every device sent its metadata and no connected device has a message
\* waiting: all messages are delivered
ThreeQuiet ==
    \A d \in ThreeDevices : metaSent[d] /\ (ws[d] = "open" => net[d] = <<>>)

\* C33: three-device convergence.  When all messages of a three-device run
\* are delivered, the three replicas hold the same ids and the same version
\* of each id.
C33ThreeConverge ==
    ThreeQuiet =>
        \A d, e \in ThreeDevices : \A i \in TodoIds :
            /\ (store[d][i] = NoTodo) <=> (store[e][i] = NoTodo)
            /\ Version(store[d][i]) = Version(store[e][i])

----------------------------------------------------------------------------
(* Claims on what a merge keeps (SpecMerge) *)

\* C34: records are never removed by sync.  Whatever versions have arrived,
\* singly or as a SYNC_DATA batch, once or twice, a record the replica held
\* before is still a record of the replica (a tombstone included) and its
\* stored updated_at is not smaller than it was.  (Every replica a run
\* passes through is also one a run starts from, so this is a statement
\* about every single merge as well.)
C34NeverShrinks ==
    \A i \in TodoIds :
        /\ m0[i] # NoTodo =>
              /\ mcur[i] # NoTodo
              /\ mcur[i].updated_at >= m0[i].updated_at
        /\ (mapplied = 2 /\ mafter1[i] # NoTodo) =>
              /\ mcur[i] # NoTodo
              /\ mcur[i].updated_at >= mafter1[i].updated_at

\* the replica holds a tombstone, an older version has arrived and was
\* merged, and the tombstone is still there
C34Witness ==
    /\ mcur[MergeId].deleted
    /\ mcur[MergeId] = m0[MergeId]
    /\ \E v \in mset \ mpending :
           v.updated_at < mcur[MergeId].updated_at /\ ~v.deleted


----------------------------------------------------------------------------
(* Claims on forwarding (SpecForward) *)

\* the frames device d has received whole
Intact(d) == {k \in 1..Len(net[d]) : net[d][k] # Garbled}

\* C35: per-sender FIFO through the relay: of two messages of one device
\* that a participant has received, the one sent first (the smaller
\* timestamp) was received first, whatever the other devices of the session
\* relay at the same time.
C35PerSenderFifo ==
    \A d \in ThreeDevices : \A i, j \in Intact(d) :
        (i < j /\ net[d][i].fromDevice = net[d][j].fromDevice)
            => net[d][i].timestamp < net[d][j].timestamp

\* devB has received two messages of devA, the second one written while
\* devC's handler was inside WriteJSON on devB's connection, where it still is
C35Witness ==
    /\ \E i, j \in Intact("devB") :
        /\ i < j
        /\ net["devB"][i].fromDevice = "devA"
        /\ net["devB"][j].fromDevice = "devA"
    /\ writer["c3"] = "c2" /\ "c3" \in raced
    /\ mark["c3"] < Len(net["devB"])

\* the envelopes the client of c can have sent so far
SentBy(c) ==
    {Envelope(in[1], in[2], FwdDev(c), in[3], ts, in[4]) :
        in \in FwdInputs, ts \in 1..nmsg}

\* the frames of device e among those device d has received
FramesFrom(d, e) ==
    {net[d][k] : k \in {n \in 1..Len(net[d]) : net[d][n] \in SentBy(CHOOSE c \in Conns : FwdDev(c) = e)}}

\* every handler is back in ReadJSON
ForwardQuiet == \A c \in Conns : pc[c] = "read"

----------------------------------------------------------------------------
(* Claims on the frame of a merge (SpecMerge) *)

\* the local row with the three things an incoming version may change
Overwritten(loc, v) ==
    [loc EXCEPT !.payload = v.payload, !.updated_at = v.updated_at,
                !.deleted = v.deleted]

\* the incoming versions merged so far, singly or as a batch
MergedSoFar == IF mapplied = 0 THEN mset \ mpending ELSE mset

\* v is the one incoming version merged so far
OnlyMerged(v) == mapplied = 0 /\ mset \ mpending = {v}

\* C37: merge frame: merging into a record that exists locally never
\* changes its id, device_id or created_at; after the merge of one incoming
\* version the record has that version's payload, updated_at and deleted and
\* nothing else changed if the version is strictly newer, and is as it was
\* if the version is strictly older; and after any merges the record is as
\* it was or changed in those three fields only, to those of one incoming
\* version.
C37MergeFrame ==
    \A i \in TodoIds : m0[i] # NoTodo =>
        /\ mcur[i].id = m0[i].id
        /\ mcur[i].device_id = m0[i].device_id
        /\ mcur[i].created_at = m0[i].created_at
        /\ mcur[i] \in {m0[i]} \cup {Overwritten(m0[i], v) : v \in MergedSoFar}
        /\ \A v \in mset : (OnlyMerged(v) /\ v.id = i) =>
              /\ v.updated_at > m0[i].updated_at => mcur[i] = Overwritten(m0[i], v)
              /\ v.updated_at < m0[i].updated_at => mcur[i] = m0[i]

\* a version written by the other device, created at another time, has won
\* over the local record
C37Witness ==
    /\ m0[MergeId] # NoTodo
    /\ \E v \in mset \ mpending :
        /\ v.device_id # m0[MergeId].device_id
        /\ v.created_at # m0[MergeId].created_at
        /\ v.updated_at > m0[MergeId].updated_at
        /\ mcur[MergeId] = Overwritten(m0[MergeId], v)
        /\ mcur[MergeId] # m0[MergeId]


----------------------------------------------------------------------------
(* Claims on clock skew (SpecMerge; the local clock reads now) *)

\* the incoming version's updated_at is more than one day from the local clock
Skewed(v) == Abs(v.updated_at - now) > oneDay

====
